---- MODULE Spec2Model ----
(***************************************************************************)
(* Bicycle-rental store of src/src/models.py: the Store object with its    *)
(* clients, bikes and rentals lists, and its operations addBike,           *)
(* addClient, addRental, getAvailableBikes, findClientByEmail,             *)
(* calculateRental and calculateTime.                                      *)
(*                                                                         *)
(* Time is counted in whole seconds since the store was built; the clock   *)
(* read by datetime.today() never goes backwards.  The amount returned by  *)
(* calculateRental, value + valueForFamily * 0.7, is kept exactly, in      *)
(* tenths of a currency unit: 10 * value + 7 * valueForFamily.             *)
(***************************************************************************)
EXTENDS Integers, Sequences, FiniteSets, TLC

VARIABLES
    clients,    \* Store.clients: the clients, in registration order
    bikes,      \* Store.bikes: the bikes, in insertion order
    rentals,    \* Store.rentals: the rentals, in creation order
    now,        \* the clock datetime.today() reads, in seconds
    ticks,      \* how often the clock has moved on
    calls,      \* how many addRental calls have allocated bikes
    last        \* the most recent step: the call, its arguments and its outcome

vars == <<clients, bikes, rentals, now, ticks, calls, last>>
store == <<clients, bikes, rentals>>

(* ------------------------------ bounds -------------------------------- *)
MaxBikes == 3
MaxStock == 6
PriceBikes == 4
MaxCalls == 2
MaxTicks == 1
MaxPeriods == 2

(* ------------------------------ inputs -------------------------------- *)
Models == {"hourly", "daily", "weekly"}
ModelInputs == Models \cup {"monthly"}
EmailInputs == {"ana@x.io", "bob@x.io", "bad"}
NameInputs == {"Ana"}
CpfInputs == {"123.456.789-00", "123"}
ColorInputs == {"red"}
MinQuantity == 0 - 1
IntQuantity(n) == [isInt |-> TRUE, v |-> n]
FloatQuantity == [isInt |-> FALSE, v |-> 2]
QuantityInputs == {IntQuantity(n) : n \in MinQuantity .. MaxStock} \cup {FloatQuantity}

(* end = None while a rental is open *)
None == 0 - 1

Min(S) == CHOOSE x \in S : \A y \in S : x <= y
Range(s) == {s[i] : i \in DOMAIN s}

(* --------------------------- Client.__init__ -------------------------- *)
regexEmail(email) == email \in {"ana@x.io", "bob@x.io"}
regexCpf(cpf) == cpf \in {"123.456.789-00"}

ClientInit(id, name, email, cpf) ==
    IF ~regexEmail(email) THEN [err |-> "Validation"]
    ELSE IF ~regexCpf(cpf) THEN [err |-> "Validation"]
    ELSE [err |-> "none", client |-> [id |-> id, name |-> name, email |-> email, cpf |-> cpf]]

(* ------------------------- Store.findClientByEmail -------------------- *)
(* index in clients of the first client with that email, 0 for None *)
findClientByEmail(email) ==
    LET hits == {i \in 1 .. Len(clients) : clients[i].email = email}
    IN IF hits = {} THEN 0 ELSE Min(hits)

(* ------------------------- Store.getAvailableBikes -------------------- *)
RECURSIVE scanBikes(_, _, _)
scanBikes(i, acc, quantity) ==
    IF i > Len(bikes) THEN acc
    ELSE IF Len(acc) = quantity THEN acc
    ELSE scanBikes(i + 1, IF bikes[i].available THEN Append(acc, i) ELSE acc, quantity)

(* the indices in bikes of the bikes returned, in order *)
getAvailableBikes(quantity) == scanBikes(1, <<>>, quantity)

(* ----------------------------- the clock ------------------------------ *)
(* The readings of datetime.today() by n successive statements of one      *)
(* call: the first is now, and the clock may move one second on between    *)
(* two readings.                                                           *)
ClockReads(n) ==
    IF n = 0 THEN {<<>>}
    ELSE {[k \in 1 .. n |-> now + Cardinality({p \in P : p <= k})] :
             P \in {Q \in SUBSET (2 .. n) : Cardinality(Q) <= MaxTicks - ticks}}

Advance(reads) == IF Len(reads) = 0 THEN 0 ELSE reads[Len(reads)] - now

(* ----------------------------- Store.__init__ ------------------------- *)
Init ==
    /\ clients = <<>>
    /\ bikes = <<>>
    /\ rentals = <<>>
    /\ now = 0
    /\ ticks = 0
    /\ calls = 0
    /\ last = [op |-> "init"]

(* ------------------------------ Store.addBike ------------------------- *)
(* the ids counted from 0 *)
addBikeZeroBased(cor) ==
    /\ bikes' = Append(bikes, [id |-> Len(bikes), color |-> cor, available |-> TRUE])
    /\ last' = [op |-> "addBike", color |-> cor, err |-> "none"]
    /\ UNCHANGED <<clients, rentals, now, ticks>>

addBike(cor) ==
    /\ bikes' = Append(bikes, [id |-> Len(bikes) + 1, color |-> cor, available |-> TRUE])
    /\ last' = [op |-> "addBike", color |-> cor, err |-> "none"]
    /\ UNCHANGED <<clients, rentals, now, ticks>>

(* ----------------------------- Store.addClient ------------------------ *)
(* without the lookup of line 126 *)
addClientNoDuplicateCheck(name, email, cpf) ==
    LET made == ClientInit(Len(clients) + 1, name, email, cpf)
        err == made.err
    IN /\ clients' = IF err = "none" THEN Append(clients, made.client) ELSE clients
       /\ last' = [op |-> "addClient", name |-> name, email |-> email, cpf |-> cpf, err |-> err]
       /\ UNCHANGED <<bikes, rentals, now, ticks>>

addClient(name, email, cpf) ==
    LET made == ClientInit(Len(clients) + 1, name, email, cpf)
        err == IF findClientByEmail(email) # 0 THEN "DuplicateClient" ELSE made.err
    IN /\ clients' = IF err = "none" THEN Append(clients, made.client) ELSE clients
       /\ last' = [op |-> "addClient", name |-> name, email |-> email, cpf |-> cpf, err |-> err]
       /\ UNCHANGED <<bikes, rentals, now, ticks>>

(* ----------------------------- Store.addRental ------------------------ *)
(* the family check without its upper limit *)
addRentalErrorNoUpperLimit(model, email, quantity, family) ==
    IF model \notin Models THEN "InvalidModel"
    ELSE IF ~quantity.isInt THEN "InvalidQuantity"
    ELSE IF Len(getAvailableBikes(quantity.v)) < quantity.v THEN "InsufficientInventory"
    ELSE IF findClientByEmail(email) = 0 THEN "UnknownClient"
    ELSE IF family /\ ~(quantity.v >= 3) THEN "InvalidFamilyRange"
    ELSE "none"

(* the client looked up before the bikes are counted *)
addRentalErrorClientFirst(model, email, quantity, family) ==
    IF model \notin Models THEN "InvalidModel"
    ELSE IF ~quantity.isInt THEN "InvalidQuantity"
    ELSE IF findClientByEmail(email) = 0 THEN "UnknownClient"
    ELSE IF Len(getAvailableBikes(quantity.v)) < quantity.v THEN "InsufficientInventory"
    ELSE IF family /\ ~(quantity.v >= 3 /\ quantity.v <= 5) THEN "InvalidFamilyRange"
    ELSE "none"

(* the exception raised by the checks of lines 151-168, "none" if none *)
addRentalError(model, email, quantity, family) ==
    IF model \notin Models THEN "InvalidModel"
    ELSE IF ~quantity.isInt THEN "InvalidQuantity"
    ELSE IF Len(getAvailableBikes(quantity.v)) < quantity.v THEN "InsufficientInventory"
    ELSE IF findClientByEmail(email) = 0 THEN "UnknownClient"
    ELSE IF family /\ ~(quantity.v >= 3 /\ quantity.v <= 5) THEN "InvalidFamilyRange"
    ELSE "none"

(* the loop of lines 170-180 over bikesAvailable, reading the clock once   *)
(* for each rental                                                         *)
allocate(model, family, bikesAvailable, clientId, reads) ==
    /\ bikes' = [i \in 1 .. Len(bikes) |->
                    IF i \in Range(bikesAvailable)
                    THEN [bikes[i] EXCEPT !.available = FALSE]
                    ELSE bikes[i]]
    /\ rentals' = rentals \o
                    [k \in 1 .. Len(bikesAvailable) |->
                        [model |-> model, family |-> family, start |-> reads[k],
                         end |-> None, bikeId |-> bikes[bikesAvailable[k]].id,
                         clientId |-> clientId]]

(* the family range checked after the loop instead of before it *)
addRentalLateFamilyCheck(model, email, quantity, family) ==
    LET err == addRentalError(model, email, quantity, family)
    IN /\ last' = [op |-> "addRental", model |-> model, email |-> email,
                   quantity |-> quantity, family |-> family, err |-> err]
       /\ IF err \notin {"none", "InvalidFamilyRange"}
          THEN UNCHANGED <<clients, bikes, rentals, now, ticks>>
          ELSE LET bikesAvailable == getAvailableBikes(quantity.v)
                   existsClient == clients[findClientByEmail(email)]
               IN /\ \E reads \in ClockReads(Len(bikesAvailable)) :
                        /\ now' = now + Advance(reads)
                        /\ ticks' = ticks + Advance(reads)
                        /\ allocate(model, family, bikesAvailable, existsClient.id, reads)
                  /\ UNCHANGED clients

addRental(model, email, quantity, family) ==
    LET err == addRentalError(model, email, quantity, family)
    IN /\ last' = [op |-> "addRental", model |-> model, email |-> email,
                   quantity |-> quantity, family |-> family, err |-> err]
       /\ IF err # "none"
          THEN UNCHANGED <<clients, bikes, rentals, now, ticks>>
          ELSE LET bikesAvailable == getAvailableBikes(quantity.v)
                   existsClient == clients[findClientByEmail(email)]
               IN /\ \E reads \in ClockReads(Len(bikesAvailable)) :
                        /\ now' = now + Advance(reads)
                        /\ ticks' = ticks + Advance(reads)
                        /\ allocate(model, family, bikesAvailable, existsClient.id, reads)
                  /\ UNCHANGED clients

(* ---------------------------- Store.calculateTime --------------------- *)
(* rounding down instead of up *)
CeilAsFloor(a, b) == a \div b

(* math.ceil(a / b) for a >= 0 and b > 0 *)
Ceil(a, b) == IF a % b = 0 THEN a \div b ELSE (a \div b) + 1

(* an interval of no length refused as well *)
calculateTimeStrict(model, start, end) ==
    IF end <= start THEN [err |-> "InvalidInterval", value |-> 0]
    ELSE LET value == IF model = "hourly" THEN Ceil(end - start, 3600)
                      ELSE IF model = "daily" THEN Ceil(end - start, 86400)
                      ELSE IF model = "weekly" THEN Ceil(end - start, 604800)
                      ELSE 0
         IN [err |-> "none", value |-> IF value < 1 THEN 1 ELSE value]

calculateTime(model, start, end) ==
    IF end < start THEN [err |-> "InvalidInterval", value |-> 0]
    ELSE LET value == IF model = "hourly" THEN Ceil(end - start, 3600)
                      ELSE IF model = "daily" THEN Ceil(end - start, 86400)
                      ELSE IF model = "weekly" THEN Ceil(end - start, 604800)
                      ELSE 0
         IN [err |-> "none", value |-> IF value < 1 THEN 1 ELSE value]

(* --------------------------- Store.calculateRental -------------------- *)
(* the multipliers of lines 268-282 *)
rate(model) ==
    IF model = "hourly" THEN 5
    ELSE IF model = "daily" THEN 25
    ELSE IF model = "weekly" THEN 100
    ELSE 0

RECURSIVE Ascending(_)
Ascending(S) == IF S = {} THEN <<>> ELSE <<Min(S)>> \o Ascending(S \ {Min(S)})

(* all the client's rentals, the closed ones too *)
openRentalsClosedToo(clientId) ==
    Ascending({i \in 1 .. Len(rentals) : rentals[i].clientId = clientId})

(* line 254: the indices in rentals of the client's open rentals, in order *)
openRentals(clientId) ==
    Ascending({i \in 1 .. Len(rentals) :
                  rentals[i].end = None /\ rentals[i].clientId = clientId})

(* only the bikes of the client's closed rentals *)
rentedBikesOfClosed(clientId) ==
    {b \in 1 .. Len(bikes) :
        \E i \in 1 .. Len(rentals) :
            /\ rentals[i].bikeId = bikes[b].id
            /\ rentals[i].clientId = clientId
            /\ rentals[i].end # None}

(* line 256: the indices in bikes of the bikes some rental of the client   *)
(* references                                                              *)
rentedBikes(clientId) ==
    {b \in 1 .. Len(bikes) :
        \E i \in 1 .. Len(rentals) :
            rentals[i].bikeId = bikes[b].id /\ rentals[i].clientId = clientId}

(* lines 254 and 256 with client = None: client.id is evaluated, and       *)
(* raises AttributeError, as soon as the left operand of an `and` is true  *)
noneClientRaises ==
    \/ \E i \in 1 .. Len(rentals) : rentals[i].end = None
    \/ \E b \in 1 .. Len(bikes), i \in 1 .. Len(rentals) : rentals[i].bikeId = bikes[b].id

(* the loop of lines 265-282 from the k-th open rental on *)
RECURSIVE settle(_, _, _, _, _, _)
settle(open, k, reads, rs, value, valueForFamily) ==
    IF k > Len(open)
    THEN [err |-> "none", rentals |-> rs, value |-> value, valueForFamily |-> valueForFamily]
    ELSE LET closed == [rs EXCEPT ![open[k]].end = reads[k]]
             rent == closed[open[k]]
             time == calculateTime(rent.model, rent.start, rent.end)
             cost == time.value * rate(rent.model)
         IN IF time.err # "none"
            THEN [err |-> time.err, rentals |-> closed, value |-> value,
                  valueForFamily |-> valueForFamily]
            ELSE IF rent.family
            THEN settle(open, k + 1, reads, closed, value, valueForFamily + cost)
            ELSE settle(open, k + 1, reads, closed, value + cost, valueForFamily)

(* the discount taken off the whole amount *)
amount10DiscountAll(value, valueForFamily) == 7 * (value + valueForFamily)

(* line 284, value + valueForFamily * 0.7, in tenths *)
amount10(value, valueForFamily) == 10 * value + 7 * valueForFamily

calculateRental(email) ==
    LET c == findClientByEmail(email)
    IN IF c = 0
       THEN /\ last' = [op |-> "calculateRental", email |-> email,
                        err |-> IF noneClientRaises THEN "AttributeError" ELSE "none",
                        amount |-> 0]
            /\ UNCHANGED <<clients, bikes, rentals, now, ticks>>
       ELSE LET open == openRentals(clients[c].id)
                returned == rentedBikes(clients[c].id)
            IN \E reads \in ClockReads(Len(open)) :
                  LET res == settle(open, 1, reads, rentals, 0, 0)
                  IN /\ now' = now + Advance(reads)
                     /\ ticks' = ticks + Advance(reads)
                     /\ bikes' = [b \in 1 .. Len(bikes) |->
                                     IF b \in returned
                                     THEN [bikes[b] EXCEPT !.available = TRUE]
                                     ELSE bikes[b]]
                     /\ rentals' = res.rentals
                     /\ last' = [op |-> "calculateRental", email |-> email, err |-> res.err,
                                 amount |-> IF res.err = "none"
                                            THEN amount10(res.value, res.valueForFamily)
                                            ELSE 0]
                     /\ UNCHANGED clients

(* --------------------------------- clock ------------------------------ *)
Tick(d) ==
    /\ ticks < MaxTicks
    /\ now' = now + d
    /\ ticks' = ticks + 1
    /\ last' = [op |-> "tick"]
    /\ UNCHANGED <<clients, bikes, rentals>>

Allocated == IF rentals' # rentals THEN 1 ELSE 0

(* The call is quick: all its readings of datetime.today() return the    *)
(* same second. The specifications below take their calls that way; the  *)
(* clock moves on between calls, through Tick.                           *)
Steady == now' = now

(* ------------------- the store over its whole life -------------------- *)
(* Any sequence of calls by any caller, so quick that the clock does not   *)
(* move on; every rental is by the hour.                                   *)
LifeModels == {"hourly"}
LifeEmails == {"ana@x.io", "bob@x.io"}
LifeQuantities == {IntQuantity(1), IntQuantity(3)}

Next ==
    \/ \E cor \in ColorInputs : Len(bikes) < MaxBikes /\ addBike(cor) /\ UNCHANGED calls
    \/ \E name \in NameInputs, email \in EmailInputs, cpf \in CpfInputs :
          addClient(name, email, cpf) /\ UNCHANGED calls
    \/ \E model \in LifeModels, email \in LifeEmails, quantity \in LifeQuantities,
          family \in BOOLEAN :
          /\ Steady
          /\ addRental(model, email, quantity, family)
          /\ calls' = calls + Allocated
          /\ calls' <= MaxCalls
    \/ \E email \in EmailInputs : Steady /\ calculateRental(email) /\ UNCHANGED calls

Spec == Init /\ [][Next]_vars

(* ----------------------- renting and its checks ----------------------- *)
(* One registered client, a stock of up to MaxStock bikes, and addRental   *)
(* called with every kind of argument; the clock does not move on.         *)
RentModels == {"hourly", "monthly"}
RentEmails == {"ana@x.io", "bob@x.io"}
RentClients == {"ana@x.io"}
ValidCpfs == {"123.456.789-00"}

NextRent ==
    \/ \E cor \in ColorInputs : Len(bikes) < MaxStock /\ addBike(cor) /\ UNCHANGED calls
    \/ \E name \in NameInputs, email \in RentClients, cpf \in ValidCpfs :
          addClient(name, email, cpf) /\ UNCHANGED calls
    \/ \E model \in RentModels, email \in RentEmails, quantity \in QuantityInputs,
          family \in BOOLEAN :
          /\ Steady
          /\ addRental(model, email, quantity, family)
          /\ calls' = calls + Allocated
          /\ calls' <= MaxCalls

SpecRent == Init /\ [][NextRent]_vars

(* ------------------------ settling and pricing ------------------------ *)
(* The caller registers ana and bob, then stocks PriceBikes bikes; then    *)
(* ana rents under every model, single bikes or as a family of three, bob  *)
(* rents single bikes by the hour, and both settle, while the clock moves  *)
(* on between the calls as long as some rental is open.                    *)
PriceClients == <<"ana@x.io", "bob@x.io">>
PriceRequests ==
    {[model |-> m, email |-> PriceClients[1], quantity |-> IntQuantity(1), family |-> FALSE] :
        m \in Models}
    \cup {[model |-> m, email |-> PriceClients[1], quantity |-> IntQuantity(3), family |-> TRUE] :
        m \in Models}
    \cup {[model |-> "hourly", email |-> PriceClients[2], quantity |-> IntQuantity(1),
           family |-> FALSE]}
PriceDeltas == {604801}

NextPrice ==
    \/ \E name \in NameInputs, cpf \in ValidCpfs :
          /\ Len(clients) < Len(PriceClients)
          /\ addClient(name, PriceClients[Len(clients) + 1], cpf)
          /\ UNCHANGED calls
    \/ \E cor \in ColorInputs :
          /\ Len(clients) = Len(PriceClients)
          /\ rentals = <<>>
          /\ Len(bikes) < PriceBikes
          /\ addBike(cor)
          /\ UNCHANGED calls
    \/ \E request \in PriceRequests :
          /\ Len(bikes) = PriceBikes
          /\ Steady
          /\ addRental(request.model, request.email, request.quantity, request.family)
          /\ calls' = calls + Allocated
          /\ calls' <= MaxCalls
    \/ \E email \in Range(PriceClients) :
          rentals # <<>> /\ Steady /\ calculateRental(email) /\ UNCHANGED calls
    \/ \E d \in PriceDeltas :
          /\ \E i \in DOMAIN rentals : rentals[i].end = None
          /\ Tick(d)
          /\ UNCHANGED calls

SpecPrice == Init /\ [][NextPrice]_vars

(* --------------------------- calculateTime ---------------------------- *)
(* calculateTime applied to intervals around the multiples of each period *)
Periods == {3600, 86400, 604800}
StartInputs == {0, 1000}
ElapsedInputs ==
    {k * p + d : k \in 0 .. MaxPeriods, p \in Periods, d \in {0 - 1, 0, 1}}

applyCalculateTime(model, start, end) ==
    /\ last' = [op |-> "calculateTime", model |-> model, start |-> start, end |-> end,
                ret |-> calculateTime(model, start, end)]
    /\ UNCHANGED <<clients, bikes, rentals, now, ticks, calls>>

NextTime ==
    \E model \in Models, start \in StartInputs, elapsed \in ElapsedInputs :
        applyCalculateTime(model, start, start + elapsed)

SpecTime == Init /\ [][NextTime]_vars

(* ------------------- listing the available bikes ---------------------- *)
(* Two clients rent single bikes by the hour and settle, so that rented    *)
(* and returned bikes mix in the inventory, and the caller lists the       *)
(* available bikes with getAvailableBikes, or rents, with any quantity     *)
(* from MinQuantity up to one more than the stock.                         *)
ScanBikes == 2
ScanCalls == 3
ScanQuantities == MinQuantity .. ScanBikes + 1
ScanRentQuantities == {IntQuantity(n) : n \in {MinQuantity, 1}}

applyGetAvailableBikes(quantity) ==
    /\ last' = [op |-> "getAvailableBikes", quantity |-> quantity,
                ret |-> [k \in 1 .. Len(getAvailableBikes(quantity)) |->
                            bikes[getAvailableBikes(quantity)[k]]]]
    /\ UNCHANGED <<clients, bikes, rentals, now, ticks, calls>>

NextScan ==
    \/ \E cor \in ColorInputs : Len(bikes) < ScanBikes /\ addBike(cor) /\ UNCHANGED calls
    \/ \E name \in NameInputs, email \in LifeEmails, cpf \in ValidCpfs :
          addClient(name, email, cpf) /\ UNCHANGED calls
    \/ \E model \in LifeModels, email \in LifeEmails, quantity \in ScanRentQuantities :
          /\ Steady
          /\ addRental(model, email, quantity, FALSE)
          /\ calls' = calls + Allocated
          /\ calls' <= ScanCalls
    \/ \E email \in LifeEmails : Steady /\ calculateRental(email) /\ UNCHANGED calls
    \/ \E quantity \in ScanQuantities : applyGetAvailableBikes(quantity)

SpecScan == Init /\ [][NextScan]_vars

(* --------------------- the clock moving within a call ----------------- *)
(* One client rents one or two bikes at a time and settles; the clock may  *)
(* move on between two readings of datetime.today() within one call, and   *)
(* between calls.                                                          *)
DriftEmails == {"ana@x.io"}
DriftQuantities == {IntQuantity(1), IntQuantity(2)}
DriftDeltas == {3600}

NextDrift ==
    \/ \E cor \in ColorInputs : Len(bikes) < MaxBikes /\ addBike(cor) /\ UNCHANGED calls
    \/ \E name \in NameInputs, email \in DriftEmails, cpf \in ValidCpfs :
          addClient(name, email, cpf) /\ UNCHANGED calls
    \/ \E model \in LifeModels, email \in DriftEmails, quantity \in DriftQuantities :
          /\ addRental(model, email, quantity, FALSE)
          /\ calls' = calls + Allocated
          /\ calls' <= MaxCalls
    \/ \E email \in DriftEmails : calculateRental(email) /\ UNCHANGED calls
    \/ \E d \in DriftDeltas : Tick(d) /\ UNCHANGED calls

SpecDrift == Init /\ [][NextDrift]_vars

(* ====================================================================== *)
(*                               properties                               *)
(* ====================================================================== *)
IsCall(op) == last'.op = op
Registered(email) == \E i \in 1 .. Len(clients) : clients[i].email = email
ClientIdOf(email) == (CHOOSE c \in Range(clients) : c.email = email).id
IsOpen(rent) == rent.end = None
OpenOf(clientId) ==
    {i \in 1 .. Len(rentals) : IsOpen(rentals[i]) /\ rentals[i].clientId = clientId}
AvailableCount == Cardinality({b \in 1 .. Len(bikes) : bikes[b].available})
NotPositiveInt(quantity) == ~quantity.isInt \/ quantity.v <= 0
InFamilyRange(quantity) == quantity.isInt /\ quantity.v \in 3 .. 5

(* C1: in every reachable state a bike is unavailable exactly when some    *)
(* open rental references its id.                                          *)
C1_AvailableIffNoOpenRental ==
    \A b \in 1 .. Len(bikes) :
        (~bikes[b].available) <=>
            (\E i \in 1 .. Len(rentals) :
                IsOpen(rentals[i]) /\ rentals[i].bikeId = bikes[b].id)

(* C2: a successful addRental(model, email, quantity, family) flips        *)
(* exactly quantity bikes from available to unavailable and appends        *)
(* exactly quantity open rentals, each on one of the flipped bikes, for    *)
(* the client of that email, with that model and family flag; nothing      *)
(* else changes.                                                           *)
C2_AllocatesExactlyQuantity ==
    [][(IsCall("addRental") /\ last'.err = "none") =>
        LET q == last'.quantity.v
            flipped == {b \in 1 .. Len(bikes) : bikes[b].available /\ ~bikes'[b].available}
            new == (Len(rentals) + 1) .. Len(rentals')
        IN /\ Len(bikes') = Len(bikes)
           /\ Cardinality(flipped) = q
           /\ \A b \in 1 .. Len(bikes) :
                 bikes'[b] = IF b \in flipped
                             THEN [bikes[b] EXCEPT !.available = FALSE]
                             ELSE bikes[b]
           /\ Len(rentals') = Len(rentals) + q
           /\ SubSeq(rentals', 1, Len(rentals)) = rentals
           /\ \A k \in new :
                 /\ IsOpen(rentals'[k])
                 /\ rentals'[k].bikeId \in {bikes[b].id : b \in flipped}
                 /\ rentals'[k].clientId = ClientIdOf(last'.email)
                 /\ rentals'[k].model = last'.model
                 /\ rentals'[k].family = last'.family
           /\ clients' = clients]_vars

(* C3: when calculateRental(email) returns for a registered client, no     *)
(* rental of that client is open, and every bike one of the client's open  *)
(* rentals referenced is available.                                        *)
C3_SettlementClosesAndReturns ==
    [][(IsCall("calculateRental") /\ Registered(last'.email) /\ last'.err = "none") =>
        LET cid == ClientIdOf(last'.email)
        IN /\ Len(rentals') = Len(rentals)
           /\ \A i \in 1 .. Len(rentals') :
                 rentals'[i].clientId = cid => ~IsOpen(rentals'[i])
           /\ \A i \in OpenOf(cid) : \A b \in 1 .. Len(bikes') :
                 bikes'[b].id = rentals[i].bikeId => bikes'[b].available]_vars

C3_Witness ==
    /\ last.op = "calculateRental"
    /\ last.err = "none"
    /\ last.amount > 0
    /\ \E i \in 1 .. Len(rentals) :
          /\ rentals[i].clientId = ClientIdOf(last.email)
          /\ ~IsOpen(rentals[i])
          /\ \E b \in 1 .. Len(bikes) :
                bikes[b].id = rentals[i].bikeId /\ bikes[b].available

(* C4: calculateRental(email) returns value + 0.7 * valueForFamily, value  *)
(* the sum over the client's open non-family rentals of the billed units   *)
(* times the rate of the model (hourly 5, daily 25, weekly 100), and       *)
(* valueForFamily the same sum over the client's open family rentals;      *)
(* closed rentals and other clients' rentals add nothing.  (In tenths.)    *)
BilledRate(model) ==
    CASE model = "hourly" -> 5 [] model = "daily" -> 25 [] model = "weekly" -> 100
BilledPeriod(model) ==
    CASE model = "hourly" -> 3600 [] model = "daily" -> 86400 [] model = "weekly" -> 604800
(* the least n >= 1 with n periods covering the elapsed time *)
BilledUnits(model, elapsed) ==
    CHOOSE n \in 1 .. (elapsed \div BilledPeriod(model)) + 1 :
        /\ n * BilledPeriod(model) >= elapsed
        /\ n = 1 \/ (n - 1) * BilledPeriod(model) < elapsed
RECURSIVE SumOver(_, _)
SumOver(S, f) ==
    IF S = {} THEN 0
    ELSE LET x == CHOOSE y \in S : TRUE IN f[x] + SumOver(S \ {x}, f)

C4_SettlementAmount ==
    [][(IsCall("calculateRental") /\ Registered(last'.email) /\ last'.err = "none") =>
        LET cid == ClientIdOf(last'.email)
            cost == [i \in OpenOf(cid) |->
                        BilledUnits(rentals[i].model, rentals'[i].end - rentals[i].start)
                            * BilledRate(rentals[i].model)]
            value == SumOver({i \in OpenOf(cid) : ~rentals[i].family}, cost)
            valueForFamily == SumOver({i \in OpenOf(cid) : rentals[i].family}, cost)
        IN last'.amount = 10 * value + 7 * valueForFamily]_vars

(* a settlement that billed family and non-family rentals of the client    *)
(* for more than one unit each                                             *)
C4_Witness ==
    /\ last.op = "calculateRental"
    /\ last.err = "none"
    /\ last.amount > 0
    /\ \E i, j \in 1 .. Len(rentals) :
          /\ rentals[i].clientId = ClientIdOf(last.email)
          /\ rentals[j].clientId = ClientIdOf(last.email)
          /\ rentals[i].family /\ ~rentals[j].family
          /\ rentals[i].end = now /\ rentals[j].end = now
          /\ rentals[i].end - rentals[i].start > 3600
          /\ rentals[j].end - rentals[j].start > 3600

(* C5: for start <= end, calculateTime(model, start, end) is               *)
(* max(1, ceil(elapsed / period)): 1 unit for elapsed 0 and for exactly    *)
(* one period, 2 units for one period plus one second.                     *)
C5_CeilingWithFloorOfOne ==
    (last.op = "calculateTime" /\ last.start <= last.end) =>
        LET elapsed == last.end - last.start
            period == BilledPeriod(last.model)
            units == last.ret.value
        IN /\ last.ret.err = "none"
           /\ units >= 1
           /\ units * period >= elapsed
           /\ units = 1 \/ (units - 1) * period < elapsed
           /\ elapsed = 0 => units = 1
           /\ elapsed = period => units = 1
           /\ elapsed = period + 1 => units = 2

C5_Witness ==
    /\ last.op = "calculateTime"
    /\ last.model = "daily"
    /\ last.end - last.start = 86400 + 1
    /\ last.ret.value = 2

(* C6: an addRental call that fails leaves the bikes, the rentals and the  *)
(* clients as they were.                                                   *)
C6_FailedRentalChangesNothing ==
    [][(IsCall("addRental") /\ last'.err # "none") =>
        UNCHANGED <<clients, bikes, rentals>>]_vars

C6_Witness ==
    /\ last.op = "addRental"
    /\ last.err = "InvalidFamilyRange"
    /\ AvailableCount >= 2
    /\ rentals # <<>>

(* C7: addRental with a valid model and a quantity that is not a positive  *)
(* integer fails with the invalid-quantity error, allocates no bike and    *)
(* creates no rental.                                                      *)
C7_NonPositiveQuantityRejected ==
    [][(IsCall("addRental") /\ last'.model \in Models /\ NotPositiveInt(last'.quantity)) =>
        /\ last'.err = "InvalidQuantity"
        /\ UNCHANGED <<bikes, rentals>>]_vars

(* C8, as stated: with family = true every quantity outside 3..5 fails     *)
(* with the family-range error.                                            *)
C8_FamilyOutOfRangeAlwaysFamilyError ==
    (last.op = "addRental" /\ last.family /\ ~InFamilyRange(last.quantity)) =>
        last.err = "InvalidFamilyRange"

(* C8, amended: with family = true addRental succeeds only for quantity 3, *)
(* 4 or 5 and fails for every other quantity, with the family-range error  *)
(* when the model is valid, the quantity an integer, that many bikes are   *)
(* available and the client is registered; with family = false it never    *)
(* fails with the family-range error.                                      *)
C8_FamilyRange ==
    [][IsCall("addRental") =>
        LET quantity == last'.quantity
        IN /\ (last'.family /\ last'.err = "none") => InFamilyRange(quantity)
           /\ (last'.family /\ ~InFamilyRange(quantity)) => last'.err # "none"
           /\ (/\ last'.family /\ ~InFamilyRange(quantity)
               /\ last'.model \in Models
               /\ quantity.isInt
               /\ AvailableCount >= quantity.v
               /\ Registered(last'.email)) => last'.err = "InvalidFamilyRange"
           /\ ~last'.family => last'.err # "InvalidFamilyRange"]_vars

C8_Witness ==
    /\ last.op = "addRental"
    /\ last.family
    /\ last.quantity = IntQuantity(6)
    /\ last.err = "InvalidFamilyRange"

(* C9: a failing addRental reports the first violated precondition in the  *)
(* order model, quantity type, available bikes, client, family range.      *)
FirstViolated(model, email, quantity, family) ==
    CASE model \notin {"hourly", "daily", "weekly"} -> "InvalidModel"
      [] OTHER ->
    CASE ~quantity.isInt -> "InvalidQuantity"
      [] OTHER ->
    CASE AvailableCount < quantity.v -> "InsufficientInventory"
      [] OTHER ->
    CASE ~Registered(email) -> "UnknownClient"
      [] OTHER ->
    CASE family /\ ~InFamilyRange(quantity) -> "InvalidFamilyRange"
      [] OTHER -> "none"

C9_FirstViolatedPreconditionReported ==
    [][IsCall("addRental") =>
        last'.err = FirstViolated(last'.model, last'.email, last'.quantity, last'.family)]_vars

(* too few bikes, an unregistered email and a family quantity out of range *)
C9_Witness ==
    /\ last.op = "addRental"
    /\ last.err = "InsufficientInventory"
    /\ ~Registered(last.email)
    /\ last.family
    /\ last.quantity = IntQuantity(6)
    /\ bikes # <<>>

(* C10: calculateRental(email) with an email of no registered client       *)
(* fails with the unknown-client error and changes no bike and no rental.  *)
C10_UnknownClientSettlementFails ==
    [][(IsCall("calculateRental") /\ ~Registered(last'.email)) =>
        /\ last'.err = "UnknownClient"
        /\ UNCHANGED <<bikes, rentals>>]_vars

(* C11: getAvailableBikes(n) returns at most n bikes, for every integer n, *)
(* and every bike it returns is available.                                 *)
C11_AtMostQuantityAvailableBikes ==
    (last.op = "getAvailableBikes") =>
        /\ Len(last.ret) <= last.quantity
        /\ \A k \in 1 .. Len(last.ret) : last.ret[k].available

(* C12: a closed rental stays where it is in the list and keeps its end    *)
(* and all its other fields through every later step.                      *)
C12_ClosedIsTerminal ==
    [][\A i \in 1 .. Len(rentals) :
          ~IsOpen(rentals[i]) =>
              /\ i <= Len(rentals')
              /\ rentals'[i] = rentals[i]]_vars

(* the client settles again after the clock moved on, and the rental       *)
(* closed by the earlier settlement still has its earlier end              *)
C12_Witness ==
    /\ last.op = "calculateRental"
    /\ last.err = "none"
    /\ \E i, j \in 1 .. Len(rentals) :
          /\ rentals[i].clientId = ClientIdOf(last.email)
          /\ rentals[j].clientId = ClientIdOf(last.email)
          /\ ~IsOpen(rentals[i])
          /\ rentals[i].end < rentals[j].end
          /\ rentals[j].end = now

(* C13: after every step the emails of the clients are pairwise distinct;  *)
(* addClient with an email not yet registered and well-formed fields       *)
(* appends one client with id = previous size + 1, and addClient with a    *)
(* registered email fails with the duplicate-client error and leaves the   *)
(* clients as they were.                                                   *)
WellFormed(email, cpf) == email \in {"ana@x.io", "bob@x.io"} /\ cpf = "123.456.789-00"

C13_UniqueEmails ==
    [][/\ \A i, j \in 1 .. Len(clients') :
             clients'[i].email = clients'[j].email => i = j
       /\ IsCall("addClient") =>
             /\ Registered(last'.email) =>
                   last'.err = "DuplicateClient" /\ clients' = clients
             /\ (~Registered(last'.email) /\ WellFormed(last'.email, last'.cpf)) =>
                   /\ last'.err = "none"
                   /\ clients' = Append(clients,
                                        [id |-> Len(clients) + 1, name |-> last'.name,
                                         email |-> last'.email, cpf |-> last'.cpf])]_vars

(* a registered email offered again, with a malformed cpf *)
C13_Witness ==
    /\ last.op = "addClient"
    /\ last.err = "DuplicateClient"
    /\ last.cpf = "123"
    /\ Len(clients) = 2

(* C14: every closed rental has end >= start, and no settlement fails      *)
(* with the end-before-start error of calculateTime.                       *)
C14_EndNotBeforeStart ==
    /\ \A i \in 1 .. Len(rentals) :
          ~IsOpen(rentals[i]) => rentals[i].end >= rentals[i].start
    /\ last.op = "calculateRental" => last.err # "InvalidInterval"

(* one settlement closed a rental in the second it started and another     *)
(* one later                                                               *)
C14_Witness ==
    /\ last.op = "calculateRental"
    /\ last.err = "none"
    /\ \E i, j \in 1 .. Len(rentals) :
          /\ ~IsOpen(rentals[i]) /\ rentals[i].end = rentals[i].start
          /\ ~IsOpen(rentals[j]) /\ rentals[j].end > rentals[j].start

(* C15: the rentals created by one successful addRental call all have the  *)
(* same start, also when the clock moves on during the call.               *)
C15_SameStartInOneCall ==
    [][(IsCall("addRental") /\ last'.err = "none") =>
        \A k, l \in (Len(rentals) + 1) .. Len(rentals') :
            rentals'[k].start = rentals'[l].start]_vars

(* C16: a successful addRental with quantity q allocates exactly the q     *)
(* available bikes that come first in the inventory, and the new rentals   *)
(* reference them in that order; no available bike is skipped for a later  *)
(* one.                                                                    *)
C16_FirstAvailableFirstAllocated ==
    [][(IsCall("addRental") /\ last'.err = "none") =>
        LET q == last'.quantity.v
            flipped == {b \in 1 .. Len(bikes) : bikes[b].available /\ ~bikes'[b].available}
            new == (Len(rentals) + 1) .. Len(rentals')
        IN /\ Cardinality(flipped) = q
           /\ \A b \in flipped : \A c \in 1 .. Len(bikes) :
                 (bikes[c].available /\ c \notin flipped) => b < c
           /\ {rentals'[k].bikeId : k \in new} = {bikes[b].id : b \in flipped}
           /\ \A k, l \in new : k < l => rentals'[k].bikeId < rentals'[l].bikeId]_vars

(* C17: calculateRental for a registered client with no open rental        *)
(* returns 0 and leaves every rental and every bike as it was (a rental    *)
(* is billed by the one call that closes it, and by no later one).         *)
C17_SettlingAgainChangesNothing ==
    [][(/\ IsCall("calculateRental")
        /\ Registered(last'.email)
        /\ OpenOf(ClientIdOf(last'.email)) = {}) =>
            /\ last'.err = "none"
            /\ last'.amount = 0
            /\ UNCHANGED <<rentals, bikes>>]_vars

(* C18: no bike is referenced by two open rentals at the same time.        *)
C18_NoBikeInTwoOpenRentals ==
    \A i, j \in 1 .. Len(rentals) :
        (IsOpen(rentals[i]) /\ IsOpen(rentals[j]) /\ rentals[i].bikeId = rentals[j].bikeId)
            => i = j

(* C19: calculateRental for a client leaves every rental of the other      *)
(* clients as it was, and every bike an open rental of another client      *)
(* references stays unavailable.                                           *)
C19_OtherClientsUntouched ==
    [][(IsCall("calculateRental") /\ Registered(last'.email)) =>
        LET cid == ClientIdOf(last'.email)
        IN /\ Len(rentals') = Len(rentals)
           /\ \A i \in 1 .. Len(rentals) :
                 rentals[i].clientId # cid => rentals'[i] = rentals[i]
           /\ \A b \in 1 .. Len(bikes) :
                 (/\ ~bikes[b].available
                  /\ \E i \in 1 .. Len(rentals) :
                        /\ IsOpen(rentals[i])
                        /\ rentals[i].clientId # cid
                        /\ rentals[i].bikeId = bikes[b].id) => ~bikes'[b].available]_vars

(* C20: the bike ids are 1..N in insertion order, the client ids 1..M in   *)
(* insertion order, and every rental's bikeId and clientId is the id of    *)
(* exactly one bike and of exactly one client.                             *)
C20_ReferentialIntegrity ==
    /\ \A b \in 1 .. Len(bikes) : bikes[b].id = b
    /\ \A c \in 1 .. Len(clients) : clients[c].id = c
    /\ \A i \in 1 .. Len(rentals) :
          /\ Cardinality({b \in 1 .. Len(bikes) : bikes[b].id = rentals[i].bikeId}) = 1
          /\ Cardinality({c \in 1 .. Len(clients) : clients[c].id = rentals[i].clientId}) = 1

(* the second client holds the last of several bikes *)
C20_Witness ==
    /\ Len(clients) = 2
    /\ Len(bikes) = MaxBikes
    /\ \E i \in 1 .. Len(rentals) :
          rentals[i].clientId = 2 /\ rentals[i].bikeId = Len(bikes)
====
